---- MODULE Spec2Model ----
(***************************************************************************)
(* The solver factory of caffe/solver_factory.hpp: one registry            *)
(* (std::map<string, Creator>) per Dtype behind a function-local static,   *)
(* AddCreator / CreateSolver / SolverTypeList on it, the SolverRegisterer  *)
(* helper and the two REGISTER_SOLVER_* macros.                            *)
(*                                                                         *)
(* Strings are sequences of one-character strings, so that concatenation,  *)
(* substring search and std::string ordering are computed.                 *)
(***************************************************************************)
EXTENDS Integers, Sequences, FiniteSets, TLC

\* ------------------------------------------------------------------ bounds
\* Heap cells a single-threaded run may allocate (registries and solver instances).
MaxAlloc == 3
\* Threads calling CreateSolver concurrently.
MaxThreads == 2

\* ----------------------------------------------------------------- strings
\* The byte value of the characters the model uses (std::string compares bytes).
Ord ==
  [c \in {" ", "(", ")", ",", ":", "A", "D", "G", "S", "U", "a", "d", "e", "k",
          "l", "m", "n", "o", "p", "r", "s", "t", "v", "w", "y"} |->
     CASE c = " " -> 32 [] c = "(" -> 40 [] c = ")" -> 41 [] c = "," -> 44
       [] c = ":" -> 58 [] c = "A" -> 65 [] c = "D" -> 68 [] c = "G" -> 71
       [] c = "S" -> 83 [] c = "U" -> 85 [] c = "a" -> 97 [] c = "d" -> 100
       [] c = "e" -> 101 [] c = "k" -> 107 [] c = "l" -> 108 [] c = "m" -> 109
       [] c = "n" -> 110 [] c = "o" -> 111 [] c = "p" -> 112 [] c = "r" -> 114
       [] c = "s" -> 115 [] c = "t" -> 116 [] c = "v" -> 118 [] c = "w" -> 119
       [] c = "y" -> 121]

\* Mutant of StrLess: std::greater in place of std::less.
StrGreater(a, b) ==
  \E i \in 1..(Len(a)) :
     /\ i <= Len(b) + 1
     /\ \A j \in 1..(i - 1) : a[j] = b[j]
     /\ \/ i = Len(b) + 1
        \/ Ord[b[i]] < Ord[a[i]]

\* std::less<std::string>: lexicographic on bytes, a proper prefix is smaller.
StrLess(a, b) ==
  \E i \in 1..(Len(b)) :
     /\ i <= Len(a) + 1
     /\ \A j \in 1..(i - 1) : a[j] = b[j]
     /\ \/ i = Len(a) + 1
        \/ Ord[a[i]] < Ord[b[i]]

\* s occurs in t as a contiguous substring.
Contains(t, s) ==
  \E i \in 0..(Len(t) - Len(s)) : \A j \in 1..Len(s) : t[i + j] = s[j]

\* The solver type names used as inputs.
SGD == <<"S", "G", "D">>
Adam == <<"A", "d", "a", "m">>
Ada == <<"A", "d", "a">>
Types == {SGD, Adam, Ada}

Dtypes == {"float", "double"}

\* --------------------------------------------------------------- creators
\* A Creator is a pointer to a function Solver<Dtype>* (const SolverParameter&).
\* kind "class": Creator_<type>Solver<Dtype>, generated by REGISTER_SOLVER_CLASS;
\* kind "custom": a hand-written creator template such as GetMyAwesomeSolver;
\* kind "null": the value-initialised pointer std::map::operator[] inserts.
NullCreator == [kind |-> "null", name |-> <<>>, dtype |-> "none"]

ClassCreator(type, d) == [kind |-> "class", name |-> type, dtype |-> d]

CustomCreator(d) == [kind |-> "custom", name |-> <<"G", "e", "t">>, dtype |-> d]

\* The creators of one Dtype passed for identifier `type`: its class creator and,
\* for SGD, the hand-written one as well.
CreatorsFor(type, d) ==
  {ClassCreator(type, d)} \cup (IF type = SGD THEN {CustomCreator(d)} ELSE {})

\* SolverParameter: the type field and one more field the registry does not read.
Params == [type : Types, lr : {1, 2}]

NoParam == [type |-> <<>>, lr |-> 0]

NoSolver == [cls |-> <<>>, dtype |-> "none", param |-> NoParam, addr |-> 0]

\* What a creator returns for `param` when its `new` yields address `addr`:
\* Creator_<type>Solver returns new <type>Solver<Dtype>(param).
CreatorResult(creator, param, addr) ==
  [cls   |-> IF creator.kind = "class"
               THEN creator.name \o <<"S", "o", "l", "v", "e", "r">>
               ELSE <<"M", "y">>,
   dtype |-> creator.dtype,
   param |-> param,
   addr  |-> addr]

\* ---------------------------------------------------- std::map<string, Creator>
\* A map is the sequence of its (first, second) pairs in key order.
\* lower_bound: the first position whose key is not less than k.
MapLowerBound(m, k) ==
  CHOOSE i \in 1..(Len(m) + 1) :
     /\ \A j \in 1..(i - 1) : StrLess(m[j].first, k)
     /\ i = Len(m) + 1 \/ ~StrLess(m[i].first, k)

\* Mutant of MapCount: the key is compared with the first entry only.
MapCountFirst(m, k) ==
  IF Len(m) >= 1 /\ ~StrLess(m[1].first, k) /\ ~StrLess(k, m[1].first) THEN 1 ELSE 0

MapCount(m, k) ==
  LET i == MapLowerBound(m, k)
  IN IF i <= Len(m) /\ ~StrLess(k, m[i].first) THEN 1 ELSE 0

\* operator[]: yields the map with a value-initialised entry added when absent.
MapIndex(m, k) ==
  LET i == MapLowerBound(m, k)
  IN IF MapCount(m, k) = 1
       THEN m
       ELSE SubSeq(m, 1, i - 1) \o <<[first |-> k, second |-> NullCreator]>>
              \o SubSeq(m, i, Len(m))

\* Mutant of MapAt: begin()->second in place of the entry found for k.
MapAtBegin(m, k) == MapIndex(m, k)[1].second

\* registry[k] as an rvalue, after MapIndex.
MapAt(m, k) == MapIndex(m, k)[MapLowerBound(m, k)].second

\* Mutant of MapAssign: the map is cleared before the entry is stored.
MapAssignCleared(m, k, v) == <<[first |-> k, second |-> v]>>

\* registry[k] = v
MapAssign(m, k, v) ==
  LET i == MapLowerBound(m, k)
  IN [MapIndex(m, k) EXCEPT ![i].second = v]

MapKeys(m) == {m[i].first : i \in 1..Len(m)}

\* ------------------------------------------------------------------- state
VARIABLES
  g_registry_,  \* per Dtype: the function-local static pointer, 0 before its initialiser ran
  heap,         \* address -> the CreatorRegistry allocated there
  brk,          \* the last address handed out by new
  fatal,        \* "none", or the kind of the fatal CHECK that ended the process
  msg,          \* the text streamed into the failed CHECK
  ret,          \* the Solver* the last operation returned, if it was a CreateSolver
  list,         \* the vector<string> the last operation returned, if it was a SolverTypeList
  calls,        \* the calls the last operation made, in order
  op,           \* the last operation and its arguments
  nsucc,        \* per Dtype: how many AddCreator calls returned
  firstReg,     \* per Dtype: identifier -> the creator of its first AddCreator that returned
  phase,        \* "register" until registration has quiesced, then "serve"
  pc,           \* per thread: where its CreateSolver call stands
  tl            \* per thread: the locals of its CreateSolver call

vars ==
  <<g_registry_, heap, brk, fatal, msg, ret, list, calls, op, nsucc, firstReg,
    phase, pc, tl>>

\* The process state the operations below transform.
World ==
  [g |-> g_registry_, heap |-> heap, brk |-> brk, fatal |-> fatal, msg |-> msg,
   ret |-> NoSolver, list |-> <<>>, calls |-> <<>>]

Call(fn, d, type, creator, param, ok) ==
  [fn |-> fn, dtype |-> d, type |-> type, creator |-> creator, param |-> param, ok |-> ok]

\* Mutant of Fatal: the failure is logged and the call goes on (a DCHECK in a
\* release build).
FatalLogOnly(w, kind, text) == [w EXCEPT !.msg = text]

\* LOG(FATAL) of a failed CHECK: the text is written and the process aborts.
Fatal(w, kind, text) == [w EXCEPT !.fatal = kind, !.msg = text]

\* Mutant of Registry: one static shared by every Dtype.
RegistryShared(w, d) ==
  IF w.g[d] # 0 THEN w
  ELSE IF \E e \in Dtypes : w.g[e] # 0
    THEN [w EXCEPT !.g[d] = w.g[CHOOSE e \in Dtypes : w.g[e] # 0]]
    ELSE [w EXCEPT !.g[d] = w.brk + 1,
                   !.heap = (w.brk + 1 :> <<>>) @@ w.heap,
                   !.brk = w.brk + 1]

\* Mutant of Registry: the pointer is not static, every call allocates a map.
RegistryRecreate(w, d) ==
  [w EXCEPT !.g[d] = w.brk + 1,
            !.heap = (w.brk + 1 :> <<>>) @@ w.heap,
            !.brk = w.brk + 1]

\* static CreatorRegistry* g_registry_ = new CreatorRegistry(); return *g_registry_;
\* The initialiser runs on the first call only.
Registry(w, d) ==
  IF w.g[d] = 0
    THEN [w EXCEPT !.g[d] = w.brk + 1,
                   !.heap = (w.brk + 1 :> <<>>) @@ w.heap,
                   !.brk = w.brk + 1]
    ELSE w

\* The map Registry() refers to in world w (after Registry(w, d)).
RegistryOf(w, d) == w.heap[w.g[d]]

AlreadyRegisteredText(type) ==
  <<"S", "o", "l", "v", "e", "r", " ", "t", "y", "p", "e", " ">> \o type \o <<" ", "a", "l", "r", "e", "a", "d", "y", " ", "r", "e", "g", "i", "s", "t", "e", "r", "e", "d", ".">>

\* Mutant of AddCreator: the CHECK_EQ is missing.
AddCreatorUnchecked(w, d, type, creator) ==
  IF w.fatal # "none" THEN w
  ELSE
    LET w1 == Registry(w, d)
        registry == RegistryOf(w1, d)
    IN [w1 EXCEPT !.heap[w1.g[d]] = MapAssign(registry, type, creator),
                  !.calls = Append(@, Call("AddCreator", d, type, creator, NoParam, TRUE))]

\* Mutant of AddCreator: the assignment runs before the failed CHECK aborts.
AddCreatorOverwrite(w, d, type, creator) ==
  IF w.fatal # "none" THEN w
  ELSE
    LET w1 == Registry(w, d)
        registry == RegistryOf(w1, d)
        w2 == [w1 EXCEPT !.heap[w1.g[d]] = MapAssign(registry, type, creator)]
    IN IF MapCount(registry, type) # 0
         THEN [Fatal(w2, "DuplicateRegistration", AlreadyRegisteredText(type))
                 EXCEPT !.calls = Append(@, Call("AddCreator", d, type, creator, NoParam, FALSE))]
         ELSE [w2 EXCEPT !.calls = Append(@, Call("AddCreator", d, type, creator, NoParam, TRUE))]

AddCreator(w, d, type, creator) ==
  IF w.fatal # "none" THEN w
  ELSE
    LET w1 == Registry(w, d)
        registry == RegistryOf(w1, d)
    IN IF MapCount(registry, type) # 0
         THEN [Fatal(w1, "DuplicateRegistration", AlreadyRegisteredText(type))
                 EXCEPT !.calls = Append(@, Call("AddCreator", d, type, creator, NoParam, FALSE))]
         ELSE [w1 EXCEPT !.heap[w1.g[d]] = MapAssign(registry, type, creator),
                         !.calls = Append(@, Call("AddCreator", d, type, creator, NoParam, TRUE))]

\* Mutant of SolverTypeList: the loop starts at ++registry.begin().
SolverTypeListSkipFirst(w, d) ==
  LET w1 == Registry(w, d)
      registry == RegistryOf(w1, d)
  IN [w |-> w1, val |-> [i \in 1..(Len(registry) - 1) |-> registry[i + 1].first]]

\* SolverTypeList: the keys in iteration order. Yields the world and the vector.
SolverTypeList(w, d) ==
  LET w1 == Registry(w, d)
      registry == RegistryOf(w1, d)
  IN [w |-> w1, val |-> [i \in 1..Len(registry) |-> registry[i].first]]

RECURSIVE JoinFromTrailing(_, _)
\* Mutant of JoinFrom: the separator is appended after every identifier.
JoinFromTrailing(solver_types, i) ==
  IF i > Len(solver_types) THEN <<>>
  ELSE solver_types[i] \o <<",", " ">> \o JoinFromTrailing(solver_types, i + 1)

RECURSIVE JoinFrom(_, _)
\* The loop of SolverTypeListString from position i on.
JoinFrom(solver_types, i) ==
  IF i > Len(solver_types) THEN <<>>
  ELSE (IF i # 1 THEN <<",", " ">> ELSE <<>>) \o solver_types[i]
         \o JoinFrom(solver_types, i + 1)

\* Mutant of SolverTypeListString: = in place of += keeps the last identifier only.
SolverTypeListStringLast(w, d) ==
  LET l == SolverTypeList(w, d)
  IN [w |-> l.w, val |-> IF l.val = <<>> THEN <<>> ELSE l.val[Len(l.val)]]

SolverTypeListString(w, d) ==
  LET l == SolverTypeList(w, d)
  IN [w |-> l.w, val |-> JoinFrom(l.val, 1)]

UnknownTypeText(type, known) ==
  <<"U", "n", "k", "n", "o", "w", "n", " ", "s", "o", "l", "v", "e", "r", " ", "t", "y", "p", "e", ":", " ">> \o type
    \o <<" ", "(", "k", "n", "o", "w", "n", " ", "t", "y", "p", "e", "s", ":", " ">> \o known \o <<")">>

\* Mutant of InvokeCreator: the creator hands out one static solver per Dtype
\* (the address of the registry) in place of a new one.
InvokeCreatorStatic(w, d, creator, param) ==
  IF creator.kind = "null"
    THEN Fatal(w, "NullCall", <<>>)
    ELSE [w EXCEPT !.ret = CreatorResult(creator, param, w.g[d]),
                   !.calls = Append(@, Call("creator", d, param.type, creator, param, TRUE))]

\* Calling through the stored pointer: the creator allocates one solver.
\* A null pointer can only come from operator[] having inserted it.
InvokeCreator(w, d, creator, param) ==
  IF creator.kind = "null"
    THEN Fatal(w, "NullCall", <<>>)
    ELSE [w EXCEPT !.brk = w.brk + 1,
                   !.ret = CreatorResult(creator, param, w.brk + 1),
                   !.calls = Append(@, Call("creator", d, param.type, creator, param, TRUE))]

\* Mutant of CreateSolver: registry[type] is read first and tested for null.
CreateSolverIndexFirst(w, d, param) ==
  IF w.fatal # "none" THEN w
  ELSE
    LET type == param.type
        w1 == Registry(w, d)
        registry == RegistryOf(w1, d)
        w2 == [w1 EXCEPT !.heap[w1.g[d]] = MapIndex(registry, type)]
    IN IF MapAt(registry, type) = NullCreator
         THEN LET s == SolverTypeListString(w2, d)
              IN Fatal(s.w, "UnknownType", UnknownTypeText(type, s.val))
         ELSE InvokeCreator(w2, d, MapAt(registry, type), param)

CreateSolver(w, d, param) ==
  IF w.fatal # "none" THEN w
  ELSE
    LET type == param.type
        w1 == Registry(w, d)
        registry == RegistryOf(w1, d)
    IN IF MapCount(registry, type) # 1
         THEN LET s == SolverTypeListString(w1, d)
              IN Fatal(s.w, "UnknownType", UnknownTypeText(type, s.val))
         ELSE InvokeCreator([w1 EXCEPT !.heap[w1.g[d]] = MapIndex(registry, type)],
                            d, MapAt(registry, type), param)

\* SolverRegisterer<Dtype>(type, creator)
SolverRegisterer(w, d, type, creator) == AddCreator(w, d, type, creator)

\* Mutant of RegisterSolverCreator: the double registerer is missing.
RegisterSolverCreatorFloatOnly(w, type, creator) ==
  SolverRegisterer(w, "float", type, creator["float"])

\* REGISTER_SOLVER_CREATOR(type, creator): two file-scope statics, float then double.
\* `creator` is a creator template, instantiated per Dtype.
RegisterSolverCreator(w, type, creator) ==
  SolverRegisterer(SolverRegisterer(w, "float", type, creator["float"]),
                   "double", type, creator["double"])

\* REGISTER_SOLVER_CLASS(type): defines Creator_<type>Solver and registers it.
RegisterSolverClass(w, type) ==
  RegisterSolverCreator(w, type, [d \in Dtypes |-> ClassCreator(type, d)])

CustomTemplate == [d \in Dtypes |-> CustomCreator(d)]

\* ----------------------------------------------------------------- actions
\* The threads that call CreateSolver once registration has quiesced.
Threads == 1..MaxThreads

\* The configurations the threads pass.
ThreadParams == {p \in Params : p.lr = 1}

NoLocals == [d |-> "none", param |-> NoParam, creator |-> NullCreator, ret |-> NoSolver]

Op(name, d, type, creator, param) ==
  [name |-> name, dtype |-> d, type |-> type, creator |-> creator, param |-> param]

\* The AddCreator calls of a trace that returned, for Dtype d.
Returned(cs, d) ==
  {i \in 1..Len(cs) : cs[i].fn = "AddCreator" /\ cs[i].dtype = d /\ cs[i].ok}

FirstRegAfter(cs, d, old) ==
  LET new == {cs[i].type : i \in Returned(cs, d)} \ DOMAIN old
  IN [t \in new |-> cs[CHOOSE i \in Returned(cs, d) :
                          /\ cs[i].type = t
                          /\ \A j \in Returned(cs, d) : cs[j].type = t => i <= j].creator]
       @@ old

\* The process moves to world w having run operation o.
Store(w) ==
  /\ g_registry_' = w.g
  /\ heap' = w.heap
  /\ brk' = w.brk
  /\ fatal' = w.fatal
  /\ msg' = w.msg

Commit(w, o) ==
  /\ w.brk <= MaxAlloc
  /\ Store(w)
  /\ ret' = w.ret
  /\ list' = w.list
  /\ calls' = w.calls
  /\ op' = o
  /\ nsucc' = [d \in Dtypes |-> nsucc[d] + Cardinality(Returned(w.calls, d))]
  /\ firstReg' = [d \in Dtypes |-> FirstRegAfter(w.calls, d, firstReg[d])]
  /\ UNCHANGED <<phase, pc, tl>>

Running == fatal = "none"

DoRegistry ==
  /\ Running
  /\ \E d \in Dtypes :
       Commit(Registry(World, d), Op("Registry", d, <<>>, NullCreator, NoParam))

DoAddCreator ==
  /\ Running
  /\ \E d \in Dtypes, type \in Types :
       \E creator \in CreatorsFor(type, d) :
         Commit(AddCreator(World, d, type, creator),
                Op("AddCreator", d, type, creator, NoParam))

DoSolverRegisterer ==
  /\ Running
  /\ \E d \in Dtypes, type \in Types :
       \E creator \in CreatorsFor(type, d) :
         Commit(SolverRegisterer(World, d, type, creator),
                Op("SolverRegisterer", d, type, creator, NoParam))

DoRegisterSolverCreator ==
  /\ Running
  /\ \E type \in {SGD} :
       Commit(RegisterSolverCreator(World, type, CustomTemplate),
              Op("REGISTER_SOLVER_CREATOR", "both", type, NullCreator, NoParam))

DoRegisterSolverClass ==
  /\ Running
  /\ \E type \in Types :
       Commit(RegisterSolverClass(World, type),
              Op("REGISTER_SOLVER_CLASS", "both", type, NullCreator, NoParam))

DoCreateSolver ==
  /\ Running
  /\ \E d \in Dtypes, param \in Params :
       Commit(CreateSolver(World, d, param),
              Op("CreateSolver", d, param.type, NullCreator, param))

DoSolverTypeList ==
  /\ Running
  /\ \E d \in Dtypes :
       LET l == SolverTypeList(World, d)
       IN Commit([l.w EXCEPT !.list = l.val],
                 Op("SolverTypeList", d, <<>>, NullCreator, NoParam))

Init ==
  /\ g_registry_ = [d \in Dtypes |-> 0]
  /\ heap = <<>>
  /\ brk = 0
  /\ fatal = "none"
  /\ msg = <<>>
  /\ ret = NoSolver
  /\ list = <<>>
  /\ calls = <<>>
  /\ op = Op("start", "none", <<>>, NullCreator, NoParam)
  /\ nsucc = [d \in Dtypes |-> 0]
  /\ firstReg = [d \in Dtypes |-> <<>>]
  /\ phase = "register"
  /\ pc = [t \in Threads |-> "idle"]
  /\ tl = [t \in Threads |-> NoLocals]

Next ==
  \/ DoRegistry
  \/ DoAddCreator
  \/ DoSolverRegisterer
  \/ DoRegisterSolverCreator
  \/ DoRegisterSolverClass
  \/ DoCreateSolver
  \/ DoSolverTypeList

Spec == Init /\ [][Next]_vars

\* ------------------------------------------- concurrent CreateSolver calls
\* One CreateSolver call per thread, a step per statement (lines 80-84); the
\* threads interleave freely between steps.

\* A step of thread t that moves the process to world w.
Step(w, name, t) ==
  /\ Store(w)
  /\ ret' = w.ret
  /\ list' = <<>>
  /\ calls' = w.calls
  /\ op' = Op(name, tl'[t].d, tl'[t].param.type, tl'[t].creator, tl'[t].param)
  /\ UNCHANGED <<nsucc, firstReg, phase>>

\* Registration during start-up, one statement at a time.
Startup ==
  /\ phase = "register"
  /\ \/ DoRegisterSolverClass
     \/ DoRegisterSolverCreator

\* Start-up is over: no AddCreator runs from here on.
Quiesce ==
  /\ phase = "register"
  /\ Running
  /\ phase' = "serve"
  /\ op' = Op("main", "none", <<>>, NullCreator, NoParam)
  /\ ret' = NoSolver /\ list' = <<>> /\ calls' = <<>>
  /\ UNCHANGED <<g_registry_, heap, brk, fatal, msg, nsucc, firstReg, pc, tl>>

\* type = param.type(); registry = Registry();
T_Registry(t) ==
  /\ phase = "serve" /\ Running /\ pc[t] = "idle"
  /\ \E d \in Dtypes, param \in ThreadParams :
       /\ tl' = [tl EXCEPT ![t] = [@ EXCEPT !.d = d, !.param = param]]
       /\ pc' = [pc EXCEPT ![t] = "check"]
       /\ Step(Registry(World, d), "T_Registry", t)

\* CHECK_EQ(registry.count(type), 1)
T_Check(t) ==
  /\ phase = "serve" /\ Running /\ pc[t] = "check"
  /\ pc' = [pc EXCEPT ![t] =
              IF MapCount(RegistryOf(World, tl[t].d), tl[t].param.type) # 1
                THEN "fail" ELSE "index"]
  /\ tl' = tl
  /\ Step(World, "T_Check", t)

\* << "Unknown solver type: " << type << " (known types: " << SolverTypeListString() << ")"
T_Fail(t) ==
  /\ phase = "serve" /\ Running /\ pc[t] = "fail"
  /\ pc' = [pc EXCEPT ![t] = "aborted"]
  /\ tl' = tl
  /\ LET s == SolverTypeListString(World, tl[t].d)
     IN Step(Fatal(s.w, "UnknownType", UnknownTypeText(tl[t].param.type, s.val)),
             "T_Fail", t)

\* registry[type]
T_Index(t) ==
  /\ phase = "serve" /\ Running /\ pc[t] = "index"
  /\ LET registry == RegistryOf(World, tl[t].d)
         type == tl[t].param.type
     IN /\ tl' = [tl EXCEPT ![t] = [@ EXCEPT !.creator = MapAt(registry, type)]]
        /\ Step([World EXCEPT !.heap[g_registry_[tl[t].d]] = MapIndex(registry, type)],
                "T_Index", t)
  /\ pc' = [pc EXCEPT ![t] = "invoke"]

\* return (...)(param);
T_Invoke(t) ==
  /\ phase = "serve" /\ Running /\ pc[t] = "invoke"
  /\ LET w == InvokeCreator(World, tl[t].d, tl[t].creator, tl[t].param)
     IN /\ tl' = [tl EXCEPT ![t] = [@ EXCEPT !.ret = w.ret]]
        /\ Step(w, "T_Invoke", t)
  /\ pc' = [pc EXCEPT ![t] = "done"]

NextConc ==
  \/ Startup
  \/ Quiesce
  \/ \E t \in Threads : T_Registry(t)
  \/ \E t \in Threads : T_Check(t)
  \/ \E t \in Threads : T_Fail(t)
  \/ \E t \in Threads : T_Index(t)
  \/ \E t \in Threads : T_Invoke(t)

SpecConc == Init /\ [][NextConc]_vars

\* --------------------------------------------- concurrent AddCreator calls
\* One AddCreator call per thread, a step per statement (lines 71-74), with
\* registry[type] = creator split into operator[] and the store through the
\* reference it yields. In phase "racing" the threads interleave freely; in
\* phase "serial" a call starts only when no other call is under way.

InFlight == {"check", "index", "assign"}

\* A step of thread t's AddCreator that moves the process to world w.
RaceStep(w, name, t) ==
  /\ Store(w)
  /\ op' = Op(name, tl'[t].d, tl'[t].param.type, tl'[t].creator, NoParam)
  /\ UNCHANGED <<ret, list, phase>>

\* CreatorRegistry& registry = Registry();
R_Registry(t) ==
  /\ phase \in {"serial", "racing"} /\ Running /\ pc[t] = "idle"
  /\ phase = "serial" => \A u \in Threads : pc[u] \notin InFlight
  /\ \E d \in Dtypes, type \in Types :
       \E creator \in CreatorsFor(type, d) :
         /\ tl' = [tl EXCEPT ![t] = [@ EXCEPT !.d = d, !.param = [NoParam EXCEPT !.type = type],
                                              !.creator = creator]]
         /\ RaceStep(Registry(World, d), "R_Registry", t)
  /\ pc' = [pc EXCEPT ![t] = "check"]
  /\ UNCHANGED <<calls, nsucc, firstReg>>

\* CHECK_EQ(registry.count(type), 0) << "Solver type " << type << " already registered.";
R_Check(t) ==
  /\ phase \in {"serial", "racing"} /\ Running /\ pc[t] = "check"
  /\ tl' = tl
  /\ IF MapCount(RegistryOf(World, tl[t].d), tl[t].param.type) # 0
       THEN /\ pc' = [pc EXCEPT ![t] = "aborted"]
            /\ RaceStep(Fatal(World, "DuplicateRegistration",
                              AlreadyRegisteredText(tl[t].param.type)), "R_Check", t)
            /\ calls' = Append(calls, Call("AddCreator", tl[t].d, tl[t].param.type,
                                           tl[t].creator, NoParam, FALSE))
       ELSE /\ pc' = [pc EXCEPT ![t] = "index"]
            /\ RaceStep(World, "R_Check", t)
            /\ calls' = calls
  /\ UNCHANGED <<nsucc, firstReg>>

\* registry[type]: the entry is found, or inserted with a null creator.
R_Index(t) ==
  /\ phase \in {"serial", "racing"} /\ Running /\ pc[t] = "index"
  /\ tl' = tl
  /\ pc' = [pc EXCEPT ![t] = "assign"]
  /\ RaceStep([World EXCEPT !.heap[g_registry_[tl[t].d]] =
                              MapIndex(RegistryOf(World, tl[t].d), tl[t].param.type)],
              "R_Index", t)
  /\ UNCHANGED <<calls, nsucc, firstReg>>

\* ... = creator; and AddCreator returns.
R_Assign(t) ==
  /\ phase \in {"serial", "racing"} /\ Running /\ pc[t] = "assign"
  /\ tl' = tl
  /\ pc' = [pc EXCEPT ![t] = "done"]
  /\ LET c == Call("AddCreator", tl[t].d, tl[t].param.type, tl[t].creator, NoParam, TRUE)
     IN /\ RaceStep([World EXCEPT !.heap[g_registry_[tl[t].d]] =
                                    MapAssign(RegistryOf(World, tl[t].d),
                                              tl[t].param.type, tl[t].creator)],
                    "R_Assign", t)
        /\ calls' = Append(calls, c)
        /\ nsucc' = [nsucc EXCEPT ![tl[t].d] = @ + 1]
        /\ firstReg' = [firstReg EXCEPT ![tl[t].d] = FirstRegAfter(<<c>>, tl[t].d, @)]

\* The unsynchronised insertion into the tree overlaps another thread's access
\* to the same map: a data race, whose outcome may be a corrupted tree.
R_Corrupt(t) ==
  /\ phase = "racing" /\ Running /\ pc[t] = "index"
  /\ MapCount(RegistryOf(World, tl[t].d), tl[t].param.type) = 0
  /\ \E u \in Threads \ {t} : pc[u] \in {"check", "index"} /\ tl[u].d = tl[t].d
  /\ tl' = tl
  /\ pc' = [pc EXCEPT ![t] = "aborted"]
  /\ RaceStep(Fatal(World, "Corrupted", <<>>), "R_Corrupt", t)
  /\ UNCHANGED <<calls, nsucc, firstReg>>

InitRace ==
  /\ g_registry_ = [d \in Dtypes |-> 0]
  /\ heap = <<>>
  /\ brk = 0
  /\ fatal = "none"
  /\ msg = <<>>
  /\ ret = NoSolver
  /\ list = <<>>
  /\ calls = <<>>
  /\ op = Op("start", "none", <<>>, NullCreator, NoParam)
  /\ nsucc = [d \in Dtypes |-> 0]
  /\ firstReg = [d \in Dtypes |-> <<>>]
  /\ phase \in {"serial", "racing"}
  /\ pc = [t \in Threads |-> "idle"]
  /\ tl = [t \in Threads |-> NoLocals]

NextRace ==
  \/ \E t \in Threads : R_Registry(t)
  \/ \E t \in Threads : R_Check(t)
  \/ \E t \in Threads : R_Index(t)
  \/ \E t \in Threads : R_Assign(t)
  \/ \E t \in Threads : R_Corrupt(t)

SpecRace == InitRace /\ [][NextRace]_vars

\* ------------------------------------------------------------------ claims
\* The identifier -> creator mapping of Dtype d as the set of its pairs; empty
\* while the static has not been initialised.
EntriesIn(g, h, d) ==
  IF g[d] = 0 THEN {}
  ELSE {<<h[g[d]][i].first, h[g[d]][i].second>> : i \in 1..Len(h[g[d]])}

\* Before and after a step.
Entries(d) == EntriesIn(g_registry_, heap, d)

EntriesAfter(d) == EntriesIn(g_registry_', heap', d)

Present(d, type) == \E e \in Entries(d) : e[1] = type

PresentAfter(d, type) == \E e \in EntriesAfter(d) : e[1] = type

Registering == {"AddCreator", "SolverRegisterer"}

Statements == {"REGISTER_SOLVER_CREATOR", "REGISTER_SOLVER_CLASS"}

\* C1: an AddCreator call for an identifier absent from the Dtype's registry
\* returns and leaves the identifier present; a call for an identifier already
\* present ends in the fatal DuplicateRegistration error, whatever creator it
\* passes.
C1_AddCreatorOutcome ==
  [][op'.name = "AddCreator" =>
       IF Present(op'.dtype, op'.type)
         THEN fatal' = "DuplicateRegistration"
         ELSE /\ fatal' = "none"
              /\ <<op'.type, op'.creator>> \in EntriesAfter(op'.dtype)]_vars

\* C1 witness: after two distinct identifiers were accepted, a repeated call
\* passing the very creator already stored has been rejected.
C1_Witness ==
  /\ op.name = "AddCreator"
  /\ fatal = "DuplicateRegistration"
  /\ nsucc[op.dtype] >= 2
  /\ <<op.type, op.creator>> \in Entries(op.dtype)

\* C2: CreateSolver for an identifier never registered for the Dtype ends in the
\* fatal UnknownType error, calls no creator, returns nothing, and its message
\* contains every identifier registered for that Dtype.
C2_UnknownType ==
  (op.name = "CreateSolver" /\ op.type \notin DOMAIN firstReg[op.dtype]) =>
     /\ fatal = "UnknownType"
     /\ calls = <<>>
     /\ ret = NoSolver
     /\ \A type \in DOMAIN firstReg[op.dtype] : Contains(msg, type)

\* C2 witness: the registry holds exactly SGD and Adam and a third identifier
\* was asked for.
C2_Witness ==
  /\ op.name = "CreateSolver"
  /\ fatal = "UnknownType"
  /\ DOMAIN firstReg[op.dtype] = {SGD, Adam}
  /\ op.type = Ada

\* C3: CreateSolver for a registered identifier raises no error, calls exactly
\* one creator, the one registered under that identifier, with the configuration
\* it was given, and returns what that creator built: a solver of the
\* creator's class and Dtype, constructed from that configuration.
C3_CreateRegistered ==
  (op.name = "CreateSolver" /\ op.type \in DOMAIN firstReg[op.dtype]) =>
     LET creator == firstReg[op.dtype][op.type]
     IN /\ fatal = "none"
        /\ calls = <<Call("creator", op.dtype, op.type, creator, op.param, TRUE)>>
        /\ ret = CreatorResult(creator, op.param, brk)
        /\ ret.param = op.param
        /\ ret.dtype = op.dtype
        /\ creator.kind = "class" => ret.cls = op.type \o <<"S", "o", "l", "v", "e", "r">>

\* C3 witness: with all three identifiers registered, the middle one was
\* created through its class creator from the configuration with lr = 2.
C3_Witness ==
  /\ op.name = "CreateSolver"
  /\ fatal = "none"
  /\ nsucc[op.dtype] = 3
  /\ op.type = Adam
  /\ ret.cls = <<"A", "d", "a", "m", "S", "o", "l", "v", "e", "r">>
  /\ ret.param.lr = 2

\* C4: the registries of different Dtypes are independent: a registration for
\* one Dtype leaves the other Dtype's static and mapping as they were, an
\* identifier present only for the other Dtype is unknown to CreateSolver, and
\* an identifier present only for the other Dtype is accepted by AddCreator.
C4_Independent ==
  [][\A d \in Dtypes :
       /\ (op'.name \in Registering /\ op'.dtype # d) =>
             /\ g_registry_'[d] = g_registry_[d]
             /\ EntriesAfter(d) = Entries(d)
       /\ (op'.name = "CreateSolver" /\ op'.dtype # d
             /\ Present(d, op'.type) /\ ~Present(op'.dtype, op'.type)) =>
             fatal' = "UnknownType"
       /\ (op'.name \in Registering /\ op'.dtype # d
             /\ Present(d, op'.type) /\ ~Present(op'.dtype, op'.type)) =>
             /\ fatal' = "none"
             /\ PresentAfter(d, op'.type) /\ PresentAfter(op'.dtype, op'.type)]_vars

\* C4 witness: the same identifier has been accepted for both Dtypes, with
\* different creators, by separate AddCreator calls.
C4_Witness ==
  /\ op.name = "AddCreator"
  /\ fatal = "none"
  /\ \E d \in Dtypes \ {op.dtype} :
       /\ Present(d, op.type)
       /\ Entries(d) # {}
       /\ \E e \in Entries(d) : e[1] = op.type /\ e[2].kind # op.creator.kind

\* C5: the vector SolverTypeList returns has no duplicate identifiers, as many
\* elements as AddCreator calls have returned for the Dtype, and exactly the
\* identifiers of those calls.
C5_ListTypes ==
  op.name = "SolverTypeList" =>
     /\ Len(list) = nsucc[op.dtype]
     /\ \A i, j \in 1..Len(list) : i # j => list[i] # list[j]
     /\ {list[i] : i \in 1..Len(list)} = DOMAIN firstReg[op.dtype]

\* C5 witness: SolverTypeList returned three identifiers.
C5_Witness ==
  /\ op.name = "SolverTypeList"
  /\ Len(list) = 3

\* The AddCreator call a DuplicateRegistration came from.
Rejected == calls[Len(calls)]

\* C6: an AddCreator call rejected as a duplicate changes no mapping entry of
\* its Dtype, and the identifier still maps to the creator of its first
\* registration.
C6_NoOverwrite ==
  [][fatal' = "DuplicateRegistration" =>
       LET c == Rejected'
       IN /\ c.fn = "AddCreator" /\ ~c.ok
          /\ Present(c.dtype, c.type)
          /\ EntriesAfter(c.dtype) = Entries(c.dtype)
          /\ <<c.type, firstReg[c.dtype][c.type]>> \in EntriesAfter(c.dtype)]_vars

\* C6 witness: a duplicate carrying a creator other than the stored one was
\* rejected.
C6_Witness ==
  /\ fatal = "DuplicateRegistration"
  /\ op.name = "AddCreator"
  /\ \E e \in Entries(op.dtype) : e[1] = op.type /\ e[2] # op.creator

\* C7: CreateSolver, whether it returns or fails, and SolverTypeList leave the
\* mapping of every Dtype unchanged; a failed CreateSolver leaves its
\* identifier absent.
C7_ReadOnly ==
  [][op'.name \in {"CreateSolver", "SolverTypeList"} =>
       /\ \A d \in Dtypes : EntriesAfter(d) = Entries(d)
       /\ fatal' = "UnknownType" => ~PresentAfter(op'.dtype, op'.type)]_vars

\* C7 witness: CreateSolver failed for an unknown identifier on a registry that
\* holds other identifiers.
C7_Witness ==
  /\ op.name = "CreateSolver"
  /\ fatal = "UnknownType"
  /\ Entries(op.dtype) # {}
  /\ ~Present(op.dtype, op.type)

\* C8: with registration over, CreateSolver calls interleaved step by step on
\* several threads never change the mapping and never crash; every call that
\* returns has the result of the creator registered under its own identifier
\* for its own configuration, at an address no other call and no registry has.
C8_ConcurrentCreate ==
  /\ [][phase = "serve" => \A d \in Dtypes : EntriesAfter(d) = Entries(d)]_vars
  /\ [](/\ fatal \in {"none", "DuplicateRegistration", "UnknownType"}
        /\ (phase = "serve" /\ fatal = "UnknownType") =>
              \E t \in Threads :
                 pc[t] = "aborted" /\ ~Present(tl[t].d, tl[t].param.type)
        /\ \A t \in Threads :
              pc[t] = "done" =>
                 /\ Present(tl[t].d, tl[t].param.type)
                 /\ \E e \in Entries(tl[t].d) :
                       /\ e[1] = tl[t].param.type
                       /\ tl[t].ret = CreatorResult(e[2], tl[t].param, tl[t].ret.addr)
                 /\ \A d \in Dtypes : tl[t].ret.addr # g_registry_[d]
                 /\ \A u \in Threads \ {t} :
                       pc[u] = "done" => tl[u].ret.addr # tl[t].ret.addr)

\* C8 witness: two threads have both returned from CreateSolver for the same
\* identifier and Dtype.
C8_Witness ==
  /\ phase = "serve"
  /\ \E t, u \in Threads :
       /\ t # u
       /\ pc[t] = "done" /\ pc[u] = "done"
       /\ tl[t].d = tl[u].d
       /\ tl[t].param = tl[u].param
       /\ tl[t].ret.addr # tl[u].ret.addr

\* C9: constructing a SolverRegisterer makes exactly one call, AddCreator with
\* its own arguments on its own Dtype, and allocates at most the registry. A
\* REGISTER_SOLVER_* statement for an identifier present in neither registry
\* makes exactly two calls, AddCreator for float then for double, each with the
\* instantiation of one creator template for that Dtype, and adds exactly that
\* entry to each registry; for an identifier already present it ends in
\* DuplicateRegistration.
C9_Registerer ==
  [][/\ op'.name = "SolverRegisterer" =>
          /\ calls' = <<Call("AddCreator", op'.dtype, op'.type, op'.creator, NoParam,
                             fatal' = "none")>>
          /\ EntriesAfter(op'.dtype) =
               IF Present(op'.dtype, op'.type)
                 THEN Entries(op'.dtype)
                 ELSE Entries(op'.dtype) \cup {<<op'.type, op'.creator>>}
          /\ brk' = IF g_registry_[op'.dtype] = 0 THEN brk + 1 ELSE brk
     /\ op'.name \in Statements =>
          IF \E d \in Dtypes : Present(d, op'.type)
            THEN fatal' = "DuplicateRegistration"
            ELSE /\ fatal' = "none"
                 /\ Len(calls') = 2
                 /\ calls'[1].dtype = "float" /\ calls'[2].dtype = "double"
                 /\ calls'[1].creator.kind = calls'[2].creator.kind
                 /\ calls'[1].creator.name = calls'[2].creator.name
                 /\ op'.name = "REGISTER_SOLVER_CLASS" =>
                      calls'[1].creator = ClassCreator(op'.type, "float")
                 /\ \A i \in 1..2 :
                      /\ calls'[i].fn = "AddCreator" /\ calls'[i].ok
                      /\ calls'[i].type = op'.type
                      /\ calls'[i].creator.dtype = calls'[i].dtype
                      /\ EntriesAfter(calls'[i].dtype) =
                           Entries(calls'[i].dtype)
                             \cup {<<op'.type, calls'[i].creator>>}]_vars

\* C9 witness: a second REGISTER_SOLVER_CLASS statement for an identifier both
\* registries hold with its class creator has failed.
C9_Witness ==
  /\ op.name = "REGISTER_SOLVER_CLASS"
  /\ fatal = "DuplicateRegistration"
  /\ \A d \in Dtypes : <<op.type, ClassCreator(op.type, d)>> \in Entries(d)

\* Operation o, which made the calls cs, accessed the registry of Dtype d: it
\* is an operation on d, or a statement one of whose registerers for d ran.
Accessed(o, cs, d) ==
  \/ o.dtype = d
  \/ o.dtype = "both" /\ \E i \in 1..Len(cs) : cs[i].dtype = d

\* C10: the static of a Dtype is initialised by the first operation that
\* accesses its registry and by no other step, to a newly allocated map that
\* holds nothing but what that operation put in; once initialised it keeps its
\* value and its map stays allocated; and the mapping is determined by the set
\* of registrations that returned, whatever their order: its keys ascend and
\* each identifier maps to the creator registered for it.
C10_LazySingleton ==
  /\ [][\A d \in Dtypes :
          /\ g_registry_[d] # 0 =>
               /\ g_registry_'[d] = g_registry_[d]
               /\ g_registry_'[d] \in DOMAIN heap'
          /\ (g_registry_[d] = 0 /\ ~Accessed(op', calls', d)) => g_registry_'[d] = 0
          /\ (g_registry_[d] = 0 /\ Accessed(op', calls', d)) =>
               /\ g_registry_'[d] # 0
               /\ g_registry_'[d] \notin DOMAIN heap
               /\ g_registry_'[d] \in DOMAIN heap'
               /\ \A e \in EntriesAfter(d) : e[1] = op'.type]_vars
  /\ [](\A d \in Dtypes :
          /\ Entries(d) = {<<type, firstReg[d][type]>> : type \in DOMAIN firstReg[d]}
          /\ g_registry_[d] # 0 =>
               /\ Len(heap[g_registry_[d]]) = Cardinality(DOMAIN firstReg[d])
               /\ \A i \in 1..(Len(heap[g_registry_[d]]) - 1) :
                    StrLess(heap[g_registry_[d]][i].first,
                            heap[g_registry_[d]][i + 1].first))

\* C10 witness: the double registry was created before the float one, and a
\* SolverRegisterer added the middle key, Adam, as the third of its registry.
C10_Witness ==
  /\ op.name = "SolverRegisterer"
  /\ op.type = Adam
  /\ nsucc[op.dtype] = 3
  /\ fatal = "none"
  /\ g_registry_["double"] = 1
  /\ g_registry_["float"] = 2

\* Threads t and u have both returned from AddCreator for one identifier of one
\* Dtype.
BothReturned(t, u) ==
  /\ t # u
  /\ pc[t] = "done" /\ pc[u] = "done"
  /\ tl[t].d = tl[u].d
  /\ tl[t].param.type = tl[u].param.type

\* The AddCreator calls of the log that returned for (d, type).
ReturnedFor(d, type) ==
  {i \in 1..Len(calls) : calls[i].ok /\ calls[i].dtype = d /\ calls[i].type = type}

\* The creator of the last of them.
LastStored(d, type) ==
  calls[CHOOSE i \in ReturnedFor(d, type) :
          \A j \in ReturnedFor(d, type) : j <= i].creator

\* C11: with AddCreator calls run one at a time no two calls for the same
\* identifier and Dtype both return, the tree is never corrupted and between
\* calls the registry has one entry per call that returned; two calls
\* for the same identifier both return only when the calls race, and then the
\* registry holds a single entry for the identifier, with the creator of the
\* call that stored last, although two or more calls for it returned.
C11_CheckThenInsertRace ==
  /\ phase = "serial" =>
       /\ fatal # "Corrupted"
       /\ \A t, u \in Threads : ~BothReturned(t, u)
       /\ (\A t \in Threads : pc[t] # "assign") =>
            \A d \in Dtypes : nsucc[d] = Cardinality(Entries(d))
  /\ \A t, u \in Threads :
       BothReturned(t, u) =>
          /\ phase = "racing"
          /\ Cardinality({e \in Entries(tl[t].d) : e[1] = tl[t].param.type}) = 1
          /\ <<tl[t].param.type, LastStored(tl[t].d, tl[t].param.type)>> \in Entries(tl[t].d)
          /\ Cardinality(ReturnedFor(tl[t].d, tl[t].param.type)) >= 2

\* C11 witness: two racing calls registered SGD for float with different
\* creators, neither was rejected, and the first creator stored is gone.
C11_Witness ==
  /\ phase = "racing"
  /\ fatal = "none"
  /\ BothReturned(1, 2)
  /\ tl[1].param.type = SGD
  /\ tl[1].creator # tl[2].creator
  /\ <<SGD, firstReg[tl[1].d][SGD]>> \notin Entries(tl[1].d)

\* The registries whose static has been initialised.
Initialised == {d \in Dtypes : g_registry_[d] # 0}

\* C12: registered entries are permanent: no step removes an entry or changes
\* its creator, every identifier whose AddCreator returned is present with the
\* creator of that call, and every CreateSolver for such an identifier returns
\* a solver, also when registrations follow CreateSolver calls.
C12_Permanent ==
  /\ [][/\ \A d \in Dtypes : \A e \in Entries(d) : e \in EntriesAfter(d)
        /\ (op'.name = "CreateSolver" /\ op'.type \in DOMAIN firstReg[op'.dtype]) =>
              /\ fatal' = "none"
              /\ ret' # NoSolver]_vars
  /\ [](\A d \in Dtypes :
          \A type \in DOMAIN firstReg[d] : <<type, firstReg[d][type]>> \in Entries(d))

\* C12 witness: after a solver had been created, a second identifier was
\* registered next to the first.
C12_Witness ==
  /\ op.name = "AddCreator"
  /\ fatal = "none"
  /\ nsucc[op.dtype] >= 2
  /\ brk > Cardinality(Initialised)

\* The identifiers in ascending byte order: "Ada" is a proper prefix of "Adam",
\* and 'A' (65) precedes 'S' (83).
Ascending == <<Ada, Adam, SGD>>

\* The members of `types` in ascending order.
AscendingOf(types) ==
  LET Member(type) == type \in types
  IN SelectSeq(Ascending, Member)

\* C13: SolverTypeList returns the registered identifiers in ascending
\* lexicographic order of their bytes, whatever the order in which they were
\* registered: in every state it is the ascending sequence of the identifiers
\* whose AddCreator returned.
C13_SortedList ==
  /\ \A d \in Dtypes :
       SolverTypeList(World, d).val = AscendingOf(DOMAIN firstReg[d])
  /\ op.name = "SolverTypeList" => list = AscendingOf(DOMAIN firstReg[op.dtype])

\* C13 witness: Ada was registered last, after Adam and SGD, and is listed
\* first.
C13_Witness ==
  /\ op.name \in Registering
  /\ op.type = Ada
  /\ fatal = "none"
  /\ nsucc[op.dtype] = 3
  /\ SolverTypeList(World, op.dtype).val = <<Ada, Adam, SGD>>

\* The fixed parts of the UnknownType message, as CreateSolver streams them.
UnknownPrefix ==
  <<"U", "n", "k", "n", "o", "w", "n", " ", "s", "o", "l", "v", "e", "r", " ", "t", "y", "p", "e", ":", " ">>

KnownPrefix ==
  <<" ", "(", "k", "n", "o", "w", "n", " ", "t", "y", "p", "e", "s", ":", " ">>

\* The known-types text of message m for identifier type: what stands between
\* " (known types: " and the closing parenthesis.
KnownTypesOf(m, type) ==
  SubSeq(m, Len(UnknownPrefix) + Len(type) + Len(KnownPrefix) + 1, Len(m) - 1)

RECURSIVE JoinedBy(_, _)
\* l joined with sep, built from the last element backwards.
JoinedBy(l, sep) ==
  IF Len(l) = 0 THEN <<>>
  ELSE IF Len(l) = 1 THEN l[1]
  ELSE JoinedBy(SubSeq(l, 1, Len(l) - 1), sep) \o sep \o l[Len(l)]

RECURSIVE SplitList(_)
\* text cut at every ", "; the empty text is the empty list.
SplitList(text) ==
  IF text = <<>> THEN <<>>
  ELSE LET cuts == {i \in 1..(Len(text) - 1) : text[i] = "," /\ text[i + 1] = " "}
       IN IF cuts = {} THEN <<text>>
          ELSE LET i == CHOOSE c \in cuts : \A e \in cuts : c <= e
               IN <<SubSeq(text, 1, i - 1)>> \o SplitList(SubSeq(text, i + 2, Len(text)))

\* C14: the UnknownType message is "Unknown solver type: ", the identifier,
\* " (known types: ", the known-types text and ")", where the known-types text
\* is what SolverTypeList returns joined with ", ": cut at ", " it gives back
\* that sequence, each identifier once and in order; it neither starts nor ends
\* with a separator, is the bare identifier for one registration and is empty
\* for an empty registry.
C14_KnownTypesText ==
  fatal = "UnknownType" =>
     LET l == SolverTypeList(World, op.dtype).val
         known == KnownTypesOf(msg, op.type)
     IN /\ msg = UnknownPrefix \o op.type \o KnownPrefix \o known \o <<")">>
        /\ known = JoinedBy(l, <<",", " ">>)
        /\ SplitList(known) = l
        /\ l = AscendingOf(DOMAIN firstReg[op.dtype])
        /\ Len(l) = 0 => known = <<>>
        /\ Len(l) = 1 => known = l[1]
        /\ Len(l) >= 1 =>
             /\ known[1] \notin {",", " "}
             /\ known[Len(known)] \notin {",", " "}

\* C14 witness: CreateSolver for Adam failed on a registry holding Ada and SGD.
C14_Witness ==
  /\ op.name = "CreateSolver"
  /\ fatal = "UnknownType"
  /\ op.type = Adam
  /\ KnownTypesOf(msg, op.type) = <<"A", "d", "a", ",", " ", "S", "G", "D">>

\* C15: the two fatal errors are distinguished and terminal. A registration
\* (AddCreator, SolverRegisterer, a REGISTER_SOLVER_* statement) ends without
\* error exactly when none of its AddCreator calls was rejected, and otherwise
\* in DuplicateRegistration; CreateSolver ends in UnknownType exactly when the
\* identifier is absent, then without having called a creator or returned a
\* solver, and otherwise returns after a single creator call; SolverTypeList
\* and Registry never fail. A fatal error leaves the mapping it was raised on
\* as it was, and no step is ever taken by a process that has failed.
C15_FatalErrors ==
  [][/\ fatal = "none"
     /\ op'.name \in Registering \cup Statements =>
          /\ fatal' \in {"none", "DuplicateRegistration"}
          /\ fatal' = "none" <=> \A i \in 1..Len(calls') : calls'[i].ok
          /\ fatal' = "DuplicateRegistration" =>
               /\ ~Rejected'.ok
               /\ EntriesAfter(Rejected'.dtype) = Entries(Rejected'.dtype)
     /\ op'.name = "CreateSolver" =>
          /\ fatal' \in {"none", "UnknownType"}
          /\ fatal' = "UnknownType" <=> ~Present(op'.dtype, op'.type)
          /\ fatal' = "UnknownType" =>
               /\ calls' = <<>>
               /\ ret' = NoSolver
               /\ \A d \in Dtypes : EntriesAfter(d) = Entries(d)
          /\ fatal' = "none" => Len(calls') = 1 /\ ret' # NoSolver
     /\ op'.name \in {"SolverTypeList", "Registry"} => fatal' = "none"]_vars

\* C15 witness: a REGISTER_SOLVER_* statement whose float registerer was
\* accepted was ended by the DuplicateRegistration of its double registerer.
C15_Witness ==
  /\ op.name \in Statements
  /\ fatal = "DuplicateRegistration"
  /\ Len(calls) = 2
  /\ calls[1].ok /\ ~calls[2].ok

====
